---- MODULE Spec2Model ----
(***************************************************************************)
(* Model of the tag/outline tree view plug:                                *)
(*   getTagTree      flat (tag, page) index records -> folder/tag/page     *)
(*                   forest                        (Spec)                  *)
(*   getOutlineTree  document text -> nested header forest (SpecOutline)   *)
(*   treeview.ts     the panel controller: toggle, switch, show, hide,     *)
(*                   with overlapping calls        (SpecPanel)             *)
(*                   with calls one after the other (SpecPanelSeq)         *)
(*   treeview.js     the panel's page: rendering, clicks, buttons and the  *)
(*                   persisted open/closed state   (SpecUi)                *)
(* A JavaScript string is modelled as the sequence of its characters, a    *)
(* character as a one-character TLA+ string.                               *)
(***************************************************************************)
EXTENDS Integers, Sequences, FiniteSets, TLC

VARIABLES
  indexResponse,    \* what the host's index.queryLuaObjects("tag") call does
  tagPc,            \* position of the getTagTree call
  tagIndexEntries,  \* getTagTree's local tagIndexEntries after the await
  tagResult,        \* the nodes of the forest getTagTree returned
  textResponse,     \* what the host's editor.getText() call does
  outlinePc,        \* position of the getOutlineTree call
  pageText,         \* getOutlineTree's local pageText after the await
  outlineResult,    \* the nodes of the forest getOutlineTree returned
  notifications,    \* editor.flashNotification calls made so far
  spaceConfig,      \* the host's stored settings under the key "tagview"
  enabled,          \* the persisted flag behind isTreeViewEnabled()
  panels,           \* what the host shows at each panel position
  currentPosition,  \* treeview.ts: let currentPosition
  currentViewType,  \* treeview.ts: let currentViewType
  calls,            \* the invocations of the plug's functions, each with
                    \* its position and locals
  activePage,       \* the page the editor shows
  render,           \* the showUnifiedPanel call that feeds the panel
  panelCurrentPage, \* treeview.js: let panelCurrentPage
  treeView,         \* the forest the panel displays, and its view type
  openNodes,        \* the paths of the nodes that carry open="true"
  pendingNav,       \* editor.navigate syscalls the host has not completed
  lastClick,        \* the click the panel handled last, with what it did
  treeState,        \* the open nodes persisted under TREE_STATE_ID, if any
  lastAction        \* the button of the panel pressed last, or the
                    \* rendering that came last, with what it changed

builderVars == <<indexResponse, tagPc, tagIndexEntries, tagResult,
                 textResponse, outlinePc, pageText, outlineResult>>

panelVars == <<spaceConfig, enabled, panels, currentPosition,
               currentViewType, calls>>

uiVars == <<activePage, render, panelCurrentPage, treeView, openNodes,
            pendingNav, lastClick, treeState, lastAction>>

vars == <<indexResponse, tagPc, tagIndexEntries, tagResult,
          textResponse, outlinePc, pageText, outlineResult, notifications,
          spaceConfig, enabled, panels, currentPosition, currentViewType,
          calls, activePage, render, panelCurrentPage, treeView, openNodes,
          pendingNav, lastClick, treeState, lastAction>>

(***************************************************************************)
(* Bounds of the model.                                                    *)
(***************************************************************************)
MaxEntries == 3
MaxScenarioEntries == 5
MaxLines == 4
MaxCalls == 2
MaxNotifications == 1
MaxPendingNav == 1

(***************************************************************************)
(* The panel controller at rest: module state as treeview.ts declares it,  *)
(* no panel shown, no call made.                                           *)
(***************************************************************************)
Undefined == "undefined"

PositionEnum == {"lhs", "rhs", "bhs", "modal"}

DefaultPosition == "lhs"

DefaultSize == 320

DefaultConfig == [position |-> DefaultPosition, size |-> DefaultSize]

\* Stored settings: an absent key is the empty sequence, a present one the
\* sequence of its value.
EmptyUserConfig == [position |-> <<>>, size |-> <<>>]

NoPanel == [viewType |-> "none", size |-> 0]

Calls == 1..MaxCalls

IdleCall ==
  [fn |-> "none", pc |-> "idle", res |-> "none", view |-> "tags",
   en |-> FALSE, userConfig |-> EmptyUserConfig,
   config |-> DefaultConfig, hidePos |-> Undefined, hideFrom |-> "none",
   failed |-> FALSE]

PanelIdle ==
  /\ spaceConfig = EmptyUserConfig
  /\ enabled = FALSE
  /\ panels = [p \in PositionEnum |-> NoPanel]
  /\ currentPosition = Undefined
  /\ currentViewType = "tags"
  /\ calls = [c \in Calls |-> IdleCall]

(***************************************************************************)
(* The panel's page (treeview.js) at rest: nothing rendered, no click.     *)
(***************************************************************************)
NoRender ==
  [pc |-> "idle", viewType |-> "tags", currentPage |-> <<>>, nodes |-> <<>>]

NoTree == [viewType |-> "none", nodes |-> <<>>]

NoClick ==
  [nodeType |-> "none", path |-> <<>>, name |-> <<>>, pos |-> 0,
   hadChildren |-> FALSE, wasOpen |-> FALSE, activeBefore |-> <<>>,
   panelPage |-> <<>>, events |-> <<>>]

NoAction ==
  [action |-> "none", changed |-> FALSE, leavesChanged |-> FALSE,
   notified |-> 0]

UiIdle ==
  /\ activePage = <<>>
  /\ render = NoRender
  /\ panelCurrentPage = <<>>
  /\ treeView = NoTree
  /\ openNodes = {}
  /\ pendingNav = {}
  /\ lastClick = NoClick
  /\ treeState = <<>>
  /\ lastAction = NoAction

(***************************************************************************)
(* Strings.                                                                *)
(***************************************************************************)
Min(S) == CHOOSE x \in S : \A y \in S : x <= y

Range(s) == {s[i] : i \in 1..Len(s)}

\* UTF-16 code unit of a character: the order of Array.prototype.sort()
\* without a comparator.
CodeUnit(c) ==
  CASE c = "\n" -> 10 [] c = " " -> 32 [] c = "#" -> 35 [] c = "-" -> 45
    [] c = "/" -> 47
    [] c = "1" -> 49 [] c = "2" -> 50 [] c = "3" -> 51
    [] c = "A" -> 65 [] c = "B" -> 66 [] c = "C" -> 67
    [] c = "a" -> 97 [] c = "b" -> 98 [] c = "c" -> 99
    [] c = "e" -> 101 [] c = "p" -> 112 [] c = "t" -> 116
    [] c = "x" -> 120 [] c = "z" -> 122

\* Primary collation weight of a character under String.prototype
\* .localeCompare: white space and punctuation first, then digits, then
\* letters with both cases of a letter at the same weight.
PrimaryWeight(c) ==
  CASE c = "\n" -> 1 [] c = " " -> 2 [] c = "-" -> 3 [] c = "/" -> 4
    [] c = "#" -> 5
    [] c = "1" -> 11 [] c = "2" -> 12 [] c = "3" -> 13
    [] c = "A" -> 21 [] c = "a" -> 21
    [] c = "B" -> 22 [] c = "b" -> 22
    [] c = "C" -> 23 [] c = "c" -> 23
    [] c = "e" -> 25 [] c = "p" -> 36 [] c = "t" -> 40
    [] c = "x" -> 44 [] c = "z" -> 46

\* Tertiary (case) weight: a lower-case letter sorts before its upper case.
TertiaryWeight(c) == IF c \in {"A", "B", "C"} THEN 1 ELSE 0

\* Three-way lexicographic comparison of two sequences of integers.
LexCompare(u, v) ==
  LET m == IF Len(u) < Len(v) THEN Len(u) ELSE Len(v)
      D == {i \in 1..m : u[i] # v[i]}
  IN IF D = {}
       THEN (IF Len(u) < Len(v) THEN -1 ELSE IF Len(u) > Len(v) THEN 1 ELSE 0)
       ELSE (IF u[Min(D)] < v[Min(D)] THEN -1 ELSE 1)

\* a.localeCompare(b): the primary weights of the whole strings decide
\* first, the case only when they are equal.
LocaleCompare(a, b) ==
  LET p == LexCompare([i \in 1..Len(a) |-> PrimaryWeight(a[i])],
                      [i \in 1..Len(b) |-> PrimaryWeight(b[i])])
  IN IF p # 0 THEN p
     ELSE LexCompare([i \in 1..Len(a) |-> TertiaryWeight(a[i])],
                     [i \in 1..Len(b) |-> TertiaryWeight(b[i])])

\* The default comparison of Array.prototype.sort(): by code units.
CodeUnitCompare(a, b) ==
  LexCompare([i \in 1..Len(a) |-> CodeUnit(a[i])],
             [i \in 1..Len(b) |-> CodeUnit(b[i])])

\* s.split(sep) for a one-character separator.
Split(s, sep) ==
  LET P == {i \in 1..Len(s) : s[i] = sep}
      Cut(k) == IF k = 0 THEN 0
                ELSE IF k = Cardinality(P) + 1 THEN Len(s) + 1
                ELSE CHOOSE i \in P : Cardinality({j \in P : j < i}) = k - 1
  IN [k \in 1..(Cardinality(P) + 1) |-> SubSeq(s, Cut(k - 1) + 1, Cut(k) - 1)]

\* parts.join(sep)
RECURSIVE Join(_, _)
Join(parts, sep) ==
  IF Len(parts) = 0 THEN <<>>
  ELSE IF Len(parts) = 1 THEN parts[1]
  ELSE parts[1] \o <<sep>> \o Join(Tail(parts), sep)

\* pageName.includes('/') ? pageName.substring(pageName.lastIndexOf('/') + 1)
\*                        : pageName
PageTitle(pageName) ==
  LET P == {i \in 1..Len(pageName) : pageName[i] = "/"}
  IN IF P = {} THEN pageName
     ELSE SubSeq(pageName, (CHOOSE i \in P : \A j \in P : j <= i) + 1,
                 Len(pageName))

\* Array.prototype.sort(compare): a stable sort, given cmp[i][j], the value
\* of compare(s[i], s[j]). Element i ends before element j iff compare puts
\* it first, or ties and i came first.
StableSort(s, cmp) ==
  LET Pos(i) == 1 + Cardinality({j \in 1..Len(s) :
                     \/ cmp[j][i] < 0
                     \/ cmp[j][i] = 0 /\ j < i})
  IN [k \in 1..Len(s) |-> s[CHOOSE i \in 1..Len(s) : Pos(i) = k]]

(***************************************************************************)
(* getTagTree: grouping of the index records.                              *)
(***************************************************************************)
\* entry && typeof entry.name === 'string' && entry.name &&
\* typeof entry.page === 'string' && entry.page
ValidEntry(entry) ==
  /\ entry.kind = "object"
  /\ entry.name # <<>>
  /\ entry.page # <<>>

\* Index of the key in a Map kept as a sequence of [tag, pages] in insertion
\* order; 0 when the Map does not have the key.
MapIndex(map, tagName) ==
  IF \E k \in 1..Len(map) : map[k].tag = tagName
    THEN CHOOSE k \in 1..Len(map) : map[k].tag = tagName
    ELSE 0

\* Mutant of SetAdd: an array push, which keeps a repeated page.
SetAddNoDedupe(set, x) == Append(set, x)

\* Set.prototype.add on a Set kept as a sequence in insertion order.
SetAdd(set, x) == IF x \in Range(set) THEN set ELSE Append(set, x)

\* One round of the loop over tagIndexEntries.
AddEntry(map, entry) ==
  IF ~ValidEntry(entry) THEN map
  ELSE LET withKey == IF MapIndex(map, entry.name) = 0
                        THEN Append(map, [tag |-> entry.name, pages |-> <<>>])
                        ELSE map
           k == MapIndex(withKey, entry.name)
       IN [withKey EXCEPT ![k].pages = SetAdd(@, entry.page)]

\* tagPageMap after the loop over the first n entries.
RECURSIVE TagPageMap(_, _)
TagPageMap(entries, n) ==
  IF n = 0 THEN <<>> ELSE AddEntry(TagPageMap(entries, n - 1), entries[n])

\* tagPageMap.get(tag) || new Set()
PagesOf(map, tag) ==
  IF MapIndex(map, tag) = 0 THEN <<>> ELSE map[MapIndex(map, tag)].pages

\* tagCounts[tag] || 0, where tagCounts[tagName] = pageSet.size
TagCount(map, tag) == Len(PagesOf(map, tag))

\* uniqueTags after uniqueTags.sort((a, b) => a.localeCompare(b))
UniqueTags(map) ==
  StableSort([k \in 1..Len(map) |-> map[k].tag],
             [i \in 1..Len(map) |->
               [j \in 1..Len(map) |-> LocaleCompare(map[i].tag, map[j].tag)]])

(***************************************************************************)
(* getTagTree: the tree.                                                   *)
(***************************************************************************)
\* Mutant of TypeOrder: { folder: 0, tag: 1, page: 2 }, tags ranked after
\* folders.
TypeOrderTagAfterFolder(nodeType) ==
  CASE nodeType = "folder" -> 0
    [] nodeType = "tag" -> 1
    [] nodeType = "page" -> 2
    [] OTHER -> 99

\* const typeOrder = { folder: 0, tag: 0, page: 1 }; ... ?? 99
TypeOrder(nodeType) ==
  CASE nodeType = "folder" -> 0
    [] nodeType = "tag" -> 0
    [] nodeType = "page" -> 1
    [] OTHER -> 99

\* The comparator of both sibling sorts.
CompareNodes(a, b) ==
  IF TypeOrder(a.data.nodeType) # TypeOrder(b.data.nodeType)
    THEN TypeOrder(a.data.nodeType) - TypeOrder(b.data.nodeType)
    ELSE LocaleCompare(a.data.title, b.data.title)

\* nodes.sort((a, b) => ...) with that comparator
SortNodes(nodes) ==
  StableSort(nodes,
             [i \in 1..Len(nodes) |->
               [j \in 1..Len(nodes) |-> CompareNodes(nodes[i], nodes[j])]])

\* One page node.
PageNode(pageName) ==
  [data |-> [name |-> pageName, title |-> PageTitle(pageName),
             nodeType |-> "page"],
   nodes |-> <<>>]

\* Mutant of PageNodes: the .sort() left out, pages in insertion order.
PageNodesUnsorted(pages) == [k \in 1..Len(pages) |-> PageNode(pages[k])]

\* Array.from(pages).sort().map(pageName => page node)
PageNodes(pages) ==
  LET sorted ==
        StableSort(pages,
                   [i \in 1..Len(pages) |->
                     [j \in 1..Len(pages) |->
                       CodeUnitCompare(pages[i], pages[j])]])
  IN [k \in 1..Len(sorted) |-> PageNode(sorted[k])]

\* parent.nodes.find(child => child.data.title === title &&
\*                            child.data.name === currentPath):
\* the index of the first match, 0 when there is none.
FindNode(nodes, title, currentPath) ==
  LET M == {k \in 1..Len(nodes) :
              nodes[k].data.title = title /\ nodes[k].data.name = currentPath}
  IN IF M = {} THEN 0 ELSE Min(M)

\* A found folder that the leaf segment of a tag turns into a tag: new data,
\* and the pages whose name no child carries yet are pushed.
UpgradeFolder(node, currentPath, title, tag, map) ==
  LET existingPageNames == {node.nodes[k].data.name : k \in 1..Len(node.nodes)}
      newPages == SelectSeq(PagesOf(map, tag),
                            LAMBDA pageName : pageName \notin existingPageNames)
  IN [data |-> [name |-> currentPath, title |-> title, nodeType |-> "tag",
                pageCount |-> TagCount(map, tag)],
      nodes |-> node.nodes \o PageNodes(newPages)]

\* A found tag at the leaf segment of a tag: pages pushed when it has no page
\* child, pageCount set again.
MergeTag(node, tag, map) ==
  LET pageChildren == SelectSeq(node.nodes,
                                LAMBDA n : n.data.nodeType = "page")
      nodes1 == IF Len(pageChildren) = 0
                  THEN node.nodes \o PageNodes(PagesOf(map, tag))
                  ELSE node.nodes
  IN [data |-> [node.data EXCEPT !.pageCount = TagCount(map, tag)],
      nodes |-> nodes1]

\* Mutant of NewNode: the pages of the tag are attached to the node of
\* every segment, the folders of its path included.
NewNodePagesEverywhere(currentPath, title, isLeafTagNode, tag, map) ==
  IF isLeafTagNode
    THEN [data |-> [name |-> currentPath, title |-> title, nodeType |-> "tag",
                    pageCount |-> TagCount(map, tag)],
          nodes |-> PageNodes(PagesOf(map, tag))]
    ELSE [data |-> [name |-> currentPath, title |-> title,
                    nodeType |-> "folder"],
          nodes |-> PageNodes(PagesOf(map, tag))]

\* The node created when find returns nothing.
NewNode(currentPath, title, isLeafTagNode, tag, map) ==
  IF isLeafTagNode
    THEN [data |-> [name |-> currentPath, title |-> title, nodeType |-> "tag",
                    pageCount |-> TagCount(map, tag)],
          nodes |-> PageNodes(PagesOf(map, tag))]
    ELSE [data |-> [name |-> currentPath, title |-> title,
                    nodeType |-> "folder"],
          nodes |-> <<>>]

\* parts.reduce(...) from segment i (1-based) on, on the child list of the
\* current parent: the child list after this and the deeper segments of the
\* tag are placed. The callback returns the found or new node, which is the
\* parent of the next segment.
RECURSIVE ReduceParts(_, _, _, _, _)
ReduceParts(parentNodes, parts, i, tag, map) ==
  LET title == parts[i]
      currentPath == Join(SubSeq(parts, 1, i), "/")
      isLeafTagNode == (i = Len(parts))
      k == FindNode(parentNodes, title, currentPath)
      Deeper(node) ==
        IF isLeafTagNode THEN node
        ELSE [node EXCEPT !.nodes = ReduceParts(@, parts, i + 1, tag, map)]
  IN IF k # 0
       THEN LET node == parentNodes[k]
                changed ==
                  IF isLeafTagNode /\ node.data.nodeType = "folder"
                    THEN UpgradeFolder(node, currentPath, title, tag, map)
                  ELSE IF isLeafTagNode /\ node.data.nodeType = "tag"
                    THEN MergeTag(node, tag, map)
                  ELSE node
                sorted == [changed EXCEPT !.nodes = SortNodes(@)]
            IN [parentNodes EXCEPT ![k] = Deeper(sorted)]
       ELSE SortNodes(Append(parentNodes,
              Deeper(NewNode(currentPath, title, isLeafTagNode, tag, map))))

\* uniqueTags.forEach(tag => tag.split("/").reduce(..., root)) over the first
\* n tags.
RECURSIVE PlaceTags(_, _, _)
PlaceTags(tags, n, map) ==
  IF n = 0 THEN <<>>
  ELSE ReduceParts(PlaceTags(tags, n - 1, map), Split(tags[n], "/"), 1,
                   tags[n], map)

\* root.nodes for the fetched entries.
BuildTagTree(entries) ==
  LET map == TagPageMap(entries, Len(entries))
      tags == UniqueTags(map)
  IN PlaceTags(tags, Len(tags), map)

(***************************************************************************)
(* The index records the model draws from.                                 *)
(***************************************************************************)
TagNames ==
  { <<"a">>, <<"a", "/", "b">>, <<"a", "/", "b", "/", "c">>,
    <<"b", "/", "a">>, <<"B">> }

PageNames == { <<"p">>, <<"a", "/", "b">>, <<"b", "/", "a">> }

Entry(tagName, pageName) ==
  [kind |-> "object", name |-> tagName, page |-> pageName]

\* Records the validity test skips: a null entry, an empty name, an empty page.
InvalidEntries ==
  { [kind |-> "null", name |-> <<>>, page |-> <<>>],
    Entry(<<>>, <<"p">>),
    Entry(<<"a">>, <<>>) }

Entries ==
  {Entry(t, p) : t \in TagNames, p \in PageNames} \cup InvalidEntries

EntryLists == UNION {[1..n -> Entries] : n \in 0..MaxEntries}

\* The records of the scenario: tag a/b on p1, a/c on p2 and p3, x on p1.
ScenarioEntries ==
  { Entry(<<"a", "/", "b">>, <<"p", "1">>),
    Entry(<<"a", "/", "c">>, <<"p", "2">>),
    Entry(<<"a", "/", "c">>, <<"p", "3">>),
    Entry(<<"x">>, <<"p", "1">>) }

\* The scenario's records in any order, any of them repeated.
ScenarioLists ==
  {e \in UNION {[1..n -> ScenarioEntries] :
                  n \in Cardinality(ScenarioEntries)..MaxScenarioEntries} :
     Range(e) = ScenarioEntries}

\* What the index query may do: reject, resolve to a value that is no array
\* (null), or resolve to a list of records.
IndexResponses ==
  { [kind |-> "throws", iterable |-> FALSE, entries |-> <<>>],
    [kind |-> "value", iterable |-> FALSE, entries |-> <<>>] }
  \cup {[kind |-> "value", iterable |-> TRUE, entries |-> e] :
          e \in EntryLists \cup ScenarioLists}

(***************************************************************************)
(* getTagTree as a process: the await of the index query, then the         *)
(* synchronous rest.                                                       *)
(***************************************************************************)
Notification(message, type) == [message |-> message, type |-> type]

NoResponse == [kind |-> "none", iterable |-> FALSE, entries |-> <<>>]

OutlineIdle ==
  /\ textResponse = [kind |-> "none", text |-> <<>>]
  /\ outlinePc = "idle"
  /\ pageText = <<>>
  /\ outlineResult = <<>>

TagInit ==
  /\ indexResponse \in IndexResponses
  /\ tagPc = "call"
  /\ tagIndexEntries = NoResponse
  /\ tagResult = <<>>
  /\ notifications = <<>>
  /\ OutlineIdle
  /\ PanelIdle
  /\ UiIdle

\* await system.invokeFunction(...) resolves: tagIndexEntries is its value.
TagFetchResolves ==
  /\ tagPc = "call"
  /\ indexResponse.kind = "value"
  /\ tagIndexEntries' = indexResponse
  /\ tagPc' = "fetched"
  /\ UNCHANGED <<indexResponse, tagResult, textResponse, outlinePc, pageText,
                 outlineResult, notifications,
                 panelVars, uiVars>>

\* await system.invokeFunction(...) rejects: the catch logs, notifies and
\* returns { nodes: [] }.
TagFetchRejects ==
  /\ tagPc = "call"
  /\ indexResponse.kind = "throws"
  /\ notifications' =
       Append(notifications, Notification("Error fetching tags", "error"))
  /\ tagResult' = <<>>
  /\ tagPc' = "returned"
  /\ UNCHANGED <<indexResponse, tagIndexEntries, textResponse, outlinePc,
                 pageText, outlineResult,
                 panelVars, uiVars>>

\* The rest of getTagTree, outside the try: for (const entry of
\* tagIndexEntries) throws a TypeError on a value that is not iterable, and
\* nothing catches it; otherwise the forest is built and returned.
TagBuild ==
  /\ tagPc = "fetched"
  /\ IF tagIndexEntries.iterable
       THEN /\ tagResult' = BuildTagTree(tagIndexEntries.entries)
            /\ tagPc' = "returned"
       ELSE /\ tagResult' = tagResult
            /\ tagPc' = "threw"
  /\ UNCHANGED <<indexResponse, tagIndexEntries, textResponse, outlinePc,
                 pageText, outlineResult, notifications,
                 panelVars, uiVars>>

TagNext == TagFetchResolves \/ TagFetchRejects \/ TagBuild

Spec == TagInit /\ [][TagNext]_vars

(***************************************************************************)
(* getOutlineTree: the header scan.                                        *)
(***************************************************************************)
\* The characters \s matches, and the characters . matches.
IsSpace(c) == c \in {" ", "\n"}

IsDot(c) == c # "\n"

\* Number of '#' characters the line starts with.
LeadingHashes(line) ==
  IF \E i \in 1..Len(line) : line[i] # "#"
    THEN Min({i \in 1..Len(line) : line[i] # "#"}) - 1
    ELSE Len(line)

\* line.match(/^(#{1,6})\s+(.+)$/): the lengths \s+ can take so that (.+)
\* matches the non-empty rest of the line. #{1,6} has to take every leading
\* '#', since \s does not match one.
SpaceRuns(line) ==
  LET h == LeadingHashes(line)
  IN {j \in 1..(Len(line) - h) :
        /\ \A i \in (h + 1)..(h + j) : IsSpace(line[i])
        /\ h + j < Len(line)
        /\ \A i \in (h + j + 1)..Len(line) : IsDot(line[i])}

\* Mutant of HeaderMatch: /^(#+)\s+(.+)$/, any number of '#'.
HeaderMatchAnyLevel(line) ==
  /\ LeadingHashes(line) >= 1
  /\ SpaceRuns(line) # {}

HeaderMatch(line) ==
  /\ LeadingHashes(line) \in 1..6
  /\ SpaceRuns(line) # {}

\* headerMatch[2]: \s+ is greedy, so the group is what follows its longest
\* run.
HeaderGroup2(line) ==
  LET j == CHOOSE j \in SpaceRuns(line) : \A i \in SpaceRuns(line) : i <= j
  IN SubSeq(line, LeadingHashes(line) + j + 1, Len(line))

\* String.prototype.trim()
Trim(s) ==
  LET K == {i \in 1..Len(s) : ~IsSpace(s[i])}
  IN IF K = {} THEN <<>>
     ELSE SubSeq(s, Min(K), CHOOSE i \in K : \A j \in K : j <= i)

DigitChar(d) ==
  CASE d = 0 -> "0" [] d = 1 -> "1" [] d = 2 -> "2" [] d = 3 -> "3"
    [] d = 4 -> "4" [] d = 5 -> "5" [] d = 6 -> "6" [] d = 7 -> "7"
    [] d = 8 -> "8" [] d = 9 -> "9"

\* The decimal digits of a natural number, as a template literal writes it.
RECURSIVE NumberToString(_)
NumberToString(n) ==
  IF n < 10 THEN <<DigitChar(n)>>
  ELSE NumberToString(n \div 10) \o <<DigitChar(n % 10)>>

\* `header-${i}`
HeaderName(i) == <<"h", "e", "a", "d", "e", "r", "-">> \o NumberToString(i)

\* Mutant of CurrentPos: the newline that ends each line is not counted.
RECURSIVE CurrentPosNoNewline(_, _)
CurrentPosNoNewline(lines, n) ==
  IF n = 1 THEN 0 ELSE CurrentPosNoNewline(lines, n - 1) + Len(lines[n - 1])

\* currentPos before line n (1-based): every earlier line's length + 1.
RECURSIVE CurrentPos(_, _)
CurrentPos(lines, n) ==
  IF n = 1 THEN 0 ELSE CurrentPos(lines, n - 1) + Len(lines[n - 1]) + 1

\* flatHeaders after the loop over the first n lines.
RECURSIVE FlatHeaders(_, _)
FlatHeaders(lines, n) ==
  IF n = 0 THEN <<>>
  ELSE IF HeaderMatch(lines[n])
    THEN Append(FlatHeaders(lines, n - 1),
                [name |-> HeaderName(n - 1),
                 title |-> Trim(HeaderGroup2(lines[n])),
                 nodeType |-> "header",
                 level |-> LeadingHashes(lines[n]),
                 pos |-> CurrentPos(lines, n)])
    ELSE FlatHeaders(lines, n - 1)

ScanHeaders(text) ==
  LET lines == Split(text, "\n") IN FlatHeaders(lines, Len(lines))

(***************************************************************************)
(* getOutlineTree: the hierarchy. The stack holds references to nodes of   *)
(* the forest: here the path of child indices that leads to each.          *)
(***************************************************************************)
RECURSIVE NodeAt(_, _)
NodeAt(nodes, path) ==
  IF Len(path) = 1 THEN nodes[path[1]]
  ELSE NodeAt(nodes[path[1]].nodes, Tail(path))

\* nodes.push(node) on the child list of the node at path (of the root list
\* for the empty path).
RECURSIVE PushAt(_, _, _)
PushAt(nodes, path, node) ==
  IF path = <<>> THEN Append(nodes, node)
  ELSE [nodes EXCEPT ![path[1]].nodes = PushAt(@, Tail(path), node)]

\* Mutant of ShouldPop: > for >=, a header of the same level stays on the
\* stack.
ShouldPopStrict(topLevel, level) == topLevel > level

\* The test of the while loop, given a stack that is not empty:
\* stack[stack.length - 1].data.level >= headerData.level
ShouldPop(topLevel, level) == topLevel >= level

\* Mutant of PopStack: an if for the while, at most one pop.
PopStackOnce(root, stack, level) ==
  IF Len(stack) > 0
     /\ ShouldPop(NodeAt(root, stack[Len(stack)]).data.level, level)
    THEN SubSeq(stack, 1, Len(stack) - 1)
    ELSE stack

\* while (stack.length > 0 && top.data.level >= headerData.level) stack.pop()
RECURSIVE PopStack(_, _, _)
PopStack(root, stack, level) ==
  IF Len(stack) > 0
     /\ ShouldPop(NodeAt(root, stack[Len(stack)]).data.level, level)
    THEN PopStack(root, SubSeq(stack, 1, Len(stack) - 1), level)
    ELSE stack

\* nodes.unshift(node) on the child list of the node at path.
RECURSIVE UnshiftAt(_, _, _)
UnshiftAt(nodes, path, node) ==
  IF path = <<>> THEN <<node>> \o nodes
  ELSE [nodes EXCEPT ![path[1]].nodes = UnshiftAt(@, Tail(path), node)]

\* Mutant of PlaceHeader: unshift for push, the new node becomes the first
\* child of its parent.
PlaceHeaderUnshift(st, headerData) ==
  LET headerNode == [data |-> headerData, nodes |-> <<>>]
      stack == PopStack(st.root, st.stack, headerData.level)
      parent == IF Len(stack) = 0 THEN <<>> ELSE stack[Len(stack)]
  IN [root |-> UnshiftAt(st.root, parent, headerNode),
      stack |-> Append(stack, Append(parent, 1))]

\* One round of the loop over flatHeaders, on [root, stack].
PlaceHeader(st, headerData) ==
  LET headerNode == [data |-> headerData, nodes |-> <<>>]
      stack == PopStack(st.root, st.stack, headerData.level)
      parent == IF Len(stack) = 0 THEN <<>> ELSE stack[Len(stack)]
      siblings == IF Len(stack) = 0 THEN st.root
                  ELSE NodeAt(st.root, parent).nodes
  IN [root |-> PushAt(st.root, parent, headerNode),
      stack |-> Append(stack, Append(parent, Len(siblings) + 1))]

RECURSIVE PlaceHeaders(_, _)
PlaceHeaders(flatHeaders, n) ==
  IF n = 0 THEN [root |-> <<>>, stack |-> <<>>]
  ELSE PlaceHeader(PlaceHeaders(flatHeaders, n - 1), flatHeaders[n])

\* root for the text read.
BuildOutlineTree(text) ==
  LET flatHeaders == ScanHeaders(text)
  IN PlaceHeaders(flatHeaders, Len(flatHeaders)).root

(***************************************************************************)
(* The documents the model draws from.                                     *)
(***************************************************************************)
Hashes(n) == [i \in 1..n |-> "#"]

\* Header lines of the levels 1..6, and lines that are no header: seven
\* '#', no space after the '#', plain text.
DocLines ==
  {Hashes(n) \o <<" ", "a">> : n \in 1..7} \cup {<<"#", "a">>, <<"a">>}

DocTexts == {Join(d, "\n") : d \in UNION {[1..n -> DocLines] : n \in 0..MaxLines}}

\* "# A\n## B\ntext\n# C"
ScenarioText ==
  <<"#", " ", "A", "\n", "#", "#", " ", "B", "\n", "t", "e", "x", "t", "\n",
    "#", " ", "C">>

\* Five headers of the levels 1, 2, 3, 2, 1.
LevelsText ==
  Join(<<Hashes(1) \o <<" ", "a">>, Hashes(2) \o <<" ", "a">>,
         Hashes(3) \o <<" ", "a">>, Hashes(2) \o <<" ", "a">>,
         Hashes(1) \o <<" ", "a">>>>, "\n")

\* What editor.getText() gives: a rejection, a text, or a value that is no
\* string, on which pageText.split throws.
TextResponses ==
  {[kind |-> "throws", text |-> <<>>], [kind |-> "malformed", text |-> <<>>]}
  \cup {[kind |-> "value", text |-> t] :
          t \in DocTexts \cup {ScenarioText, LevelsText}}

(***************************************************************************)
(* getOutlineTree as a process: the await of editor.getText(), then the    *)
(* synchronous rest, all inside one try.                                   *)
(***************************************************************************)
TagIdle ==
  /\ indexResponse = NoResponse
  /\ tagPc = "idle"
  /\ tagIndexEntries = NoResponse
  /\ tagResult = <<>>

OutlineInit ==
  /\ textResponse \in TextResponses
  /\ outlinePc = "call"
  /\ pageText = <<>>
  /\ outlineResult = <<>>
  /\ notifications = <<>>
  /\ TagIdle
  /\ PanelIdle
  /\ UiIdle

\* await editor.getText() resolves.
OutlineGetTextResolves ==
  /\ outlinePc = "call"
  /\ textResponse.kind = "value"
  /\ pageText' = textResponse.text
  /\ outlinePc' = "read"
  /\ UNCHANGED <<indexResponse, tagPc, tagIndexEntries, tagResult,
                 textResponse, outlineResult, notifications,
                 panelVars, uiVars>>

\* await editor.getText() rejects: the catch logs, notifies and returns
\* { nodes: [] }.
OutlineGetTextRejects ==
  /\ outlinePc = "call"
  /\ textResponse.kind = "throws"
  /\ notifications' =
       Append(notifications, Notification("Error getting outline", "error"))
  /\ outlineResult' = <<>>
  /\ outlinePc' = "returned"
  /\ UNCHANGED <<indexResponse, tagPc, tagIndexEntries, tagResult,
                 textResponse, pageText,
                 panelVars, uiVars>>

\* Mutant of OutlineSplitThrows: the split is outside the try and the
\* TypeError reaches the caller.
OutlineSplitThrowsUncaught ==
  /\ outlinePc = "call"
  /\ textResponse.kind = "malformed"
  /\ outlinePc' = "threw"
  /\ UNCHANGED <<indexResponse, tagPc, tagIndexEntries, tagResult,
                 textResponse, pageText, outlineResult, notifications,
                 panelVars, uiVars>>

\* await editor.getText() resolves to a value without split: the TypeError
\* is thrown inside the try, and the catch logs, notifies and returns
\* { nodes: [] }.
OutlineSplitThrows ==
  /\ outlinePc = "call"
  /\ textResponse.kind = "malformed"
  /\ notifications' =
       Append(notifications, Notification("Error getting outline", "error"))
  /\ outlineResult' = <<>>
  /\ outlinePc' = "returned"
  /\ UNCHANGED <<indexResponse, tagPc, tagIndexEntries, tagResult,
                 textResponse, pageText,
                 panelVars, uiVars>>

\* The scan and the hierarchy, then return { nodes: root }.
OutlineBuild ==
  /\ outlinePc = "read"
  /\ outlineResult' = BuildOutlineTree(pageText)
  /\ outlinePc' = "returned"
  /\ UNCHANGED <<indexResponse, tagPc, tagIndexEntries, tagResult,
                 textResponse, pageText, notifications,
                 panelVars, uiVars>>

OutlineNext ==
  \/ OutlineGetTextResolves
  \/ OutlineGetTextRejects
  \/ OutlineSplitThrows
  \/ OutlineBuild

SpecOutline == OutlineInit /\ [][OutlineNext]_vars

(***************************************************************************)
(* The panel controller: treeview.ts and getPlugConfig of config.ts.       *)
(* An await of a host call that reads or writes host state is two steps:   *)
(* the host completes the call (HostCompletes), then the function resumes  *)
(* and runs to its next await (the Resume actions). A host call that fails *)
(* or that touches no host state has no effect of its own, so its outcome  *)
(* is drawn when the function resumes. Calls of the plug's functions may   *)
(* overlap: between two steps of one call any step of another can happen.  *)
(***************************************************************************)
\* The stored settings the model draws from: none, a valid pair, a position
\* outside the enum, a size that is not greater than 0.
UserConfigs ==
  {EmptyUserConfig,
   [position |-> <<"rhs">>, size |-> <<400>>],
   [position |-> <<"top">>, size |-> <<>>],
   [position |-> <<>>, size |-> <<0>>]}

\* tagViewConfigSchema.parse(userConfig) succeeds.
SchemaAccepts(u) ==
  /\ u.position = <<>> \/ u.position[1] \in PositionEnum
  /\ u.size = <<>> \/ u.size[1] > 0

\* The value of tagViewConfigSchema.parse(userConfig): absent keys take
\* their defaults.
SchemaParse(u) ==
  [position |-> IF u.position = <<>> THEN DefaultPosition ELSE u.position[1],
   size |-> IF u.size = <<>> THEN DefaultSize ELSE u.size[1]]

\* The functions the host can invoke (treeview.plug.yaml), with the view
\* type each passes on; show is showTree, that is showUnifiedPanel("tags").
EntryPoints ==
  {[fn |-> "toggleTree", view |-> "tags"],
   [fn |-> "toggleOutline", view |-> "outline"],
   [fn |-> "switchView", view |-> "tags"],
   [fn |-> "switchView", view |-> "outline"],
   [fn |-> "showTreeIfEnabled", view |-> "tags"],
   [fn |-> "hideTree", view |-> "tags"],
   [fn |-> "showUnifiedPanel", view |-> "tags"]}

\* What a running call can write: its own record, the two module
\* variables, and the notifications it fires without awaiting them.
Running(c) ==
  [call |-> calls[c], cp |-> currentPosition, cv |-> currentViewType,
   notes |-> notifications]

\* The call ends: "done" when it returns, "threw" when its promise rejects.
\* What it was (fn, view), the flag a toggle read, and whether a host call
\* failed in it stay on record.
Finish(m, how) ==
  [m EXCEPT !.call = [IdleCall EXCEPT !.fn = m.call.fn,
                                      !.view = m.call.view,
                                      !.en = m.call.en,
                                      !.failed = m.call.failed,
                                      !.pc = how]]

\* An exception leaves the function it was thrown in. Only
\* showTreeIfEnabled has a try around all it does; it logs and returns.
Throw(m) ==
  LET m1 == [m EXCEPT !.call.failed = TRUE]
  IN IF m.call.fn = "showTreeIfEnabled" THEN Finish(m1, "done")
     ELSE Finish(m1, "threw")

\* The call issues a host call and waits for it.
Await(m, pc) == [m EXCEPT !.call.pc = pc, !.call.res = "pending"]

\* hideTree returns to the place it was called from.
ReturnFromHide(m) ==
  IF m.call.hideFrom = "reposition" THEN Await(m, "readAssets")
  ELSE Finish(m, "done")

\* hideTree up to its first await.
EnterHide(m, from) ==
  LET m1 == [m EXCEPT !.call.hideFrom = from]
  IN IF m.cp # Undefined
       THEN Await([m1 EXCEPT !.call.hidePos = m.cp], "hidePanel")
       ELSE ReturnFromHide(m1)

\* showUnifiedPanel(viewType) up to its first await, the
\* system.getSpaceConfig of getPlugConfig.
EnterShow(m, viewType) ==
  Await([m EXCEPT !.cv = viewType, !.call.view = viewType], "getSpaceConfig")

\* showUnifiedPanel after getPlugConfig returned config.
AfterGetPlugConfig(m, config) ==
  LET m1 == [m EXCEPT !.call.config = config]
  IN IF m.cp # Undefined /\ config.position # m.cp
       THEN EnterHide(m1, "reposition")
       ELSE Await(m1, "readAssets")

\* The catch of showUnifiedPanel.
CatchShow(m) ==
  EnterHide([m EXCEPT !.call.failed = TRUE,
                      !.notes = Append(@, Notification(
                         "Error loading tree view", "error"))], "cleanup")

\* A function up to its first await.
Start(m, e) ==
  LET m1 == [m EXCEPT !.call.fn = e.fn, !.call.view = e.view]
  IN CASE e.fn \in {"toggleTree", "toggleOutline"} -> Await(m1, "isEnabled")
       [] e.fn = "switchView" -> Await([m1 EXCEPT !.cv = e.view], "isEnabled")
       [] e.fn = "showTreeIfEnabled" -> Await(m1, "getEnv")
       [] e.fn = "hideTree" -> EnterHide(m1, "direct")
       [] e.fn = "showUnifiedPanel" -> EnterShow(m1, e.view)

Apply(c, m) ==
  /\ calls' = [calls EXCEPT ![c] = m.call]
  /\ currentPosition' = m.cp
  /\ currentViewType' = m.cv
  /\ notifications' = m.notes
  /\ UNCHANGED <<spaceConfig, enabled, panels, builderVars, uiVars>>

\* The awaits of host calls that neither read nor write host state.
PureAwaits == {"getEnv", "readAssets", "getTree", "getCustomStyles"}

\* How the await a call is at can end when the call resumes: with the value
\* the host gave, or with a rejection.
Outcomes(c) ==
  IF calls[c].res = "ok" THEN {"ok"}
  ELSE IF calls[c].res = "pending"
    THEN IF calls[c].pc \in PureAwaits THEN {"ok", "fail"} ELSE {"fail"}
    ELSE {}

PanelInit ==
  /\ spaceConfig \in UserConfigs
  /\ enabled \in BOOLEAN
  /\ panels = [p \in PositionEnum |-> NoPanel]
  /\ currentPosition = Undefined
  /\ currentViewType = "tags"
  /\ calls = [c \in Calls |-> IdleCall]
  /\ notifications = <<>>
  /\ TagIdle
  /\ OutlineIdle
  /\ UiIdle

\* The host invokes a function of the plug: a command, an event, or
\* system.invokeFunction from the panel.
Invoke(c, e) ==
  /\ calls[c].pc = "idle"
  /\ IF c = 1 THEN TRUE ELSE calls[c - 1].pc # "idle"
  /\ Apply(c, Start(Running(c), e))

\* The user changes the stored settings.
ConfigChange ==
  /\ spaceConfig' \in UserConfigs \ {spaceConfig}
  /\ UNCHANGED <<enabled, panels, currentPosition, currentViewType, calls,
                 notifications, builderVars, uiVars>>

\* The persisted flag: one boolean, which its callers read and write
\* without naming a view.
IsTreeViewEnabled(flag) == flag

SetTreeViewEnabled(flag, value) == value

\* The notification of getPlugConfig's catch.
InvalidConfigNotification ==
  Notification("Invalid configuration for Tag View, using defaults.", "error")

\* The notification getTagTree or getOutlineTree fires when its own fetch
\* fails and it returns { nodes: [] }.
FetchErrorNotification(viewType) ==
  IF viewType = "tags" THEN Notification("Error fetching tags", "error")
  ELSE Notification("Error getting outline", "error")

\* The host call a function waits for completes, with its effect on the
\* host and its value for the caller.
HostCompletes(c) ==
  LET call == calls[c]
      ok == [call EXCEPT !.res = "ok"]
  IN /\ call.res = "pending"
     /\ call.pc \notin PureAwaits
     /\ CASE call.pc = "isEnabled" ->
               /\ calls' = [calls EXCEPT
                              ![c] = [ok EXCEPT
                                        !.en = IsTreeViewEnabled(enabled)]]
               /\ UNCHANGED <<enabled, panels, notifications>>
          [] call.pc = "getSpaceConfig" ->
               /\ calls' = [calls EXCEPT
                              ![c] = [ok EXCEPT !.userConfig = spaceConfig]]
               /\ UNCHANGED <<enabled, panels, notifications>>
          [] call.pc = "flashInvalid" ->
               /\ calls' = [calls EXCEPT ![c] = ok]
               /\ notifications' =
                    Append(notifications, InvalidConfigNotification)
               /\ UNCHANGED <<enabled, panels>>
          [] call.pc = "hidePanel" ->
               /\ calls' = [calls EXCEPT ![c] = ok]
               /\ panels' = [panels EXCEPT ![call.hidePos] = NoPanel]
               /\ UNCHANGED <<enabled, notifications>>
          [] call.pc = "setEnabledFalse" ->
               /\ calls' = [calls EXCEPT ![c] = ok]
               /\ enabled' = SetTreeViewEnabled(enabled, FALSE)
               /\ UNCHANGED <<panels, notifications>>
          [] call.pc = "showPanel" ->
               /\ calls' = [calls EXCEPT ![c] = ok]
               /\ panels' = [panels EXCEPT
                               ![call.config.position] =
                                 [viewType |-> call.view,
                                  size |-> call.config.size]]
               /\ UNCHANGED <<enabled, notifications>>
          [] call.pc = "setEnabledTrue" ->
               /\ calls' = [calls EXCEPT ![c] = ok]
               /\ enabled' = SetTreeViewEnabled(enabled, TRUE)
               /\ UNCHANGED <<panels, notifications>>
     /\ UNCHANGED <<spaceConfig, currentPosition, currentViewType,
                    builderVars, uiVars>>

\* showTreeIfEnabled after await system.getEnv().
ResumeGetEnv(c) ==
  LET m == Running(c)
  IN /\ calls[c].pc = "getEnv"
     /\ \E o \in Outcomes(c) : \E env \in {"client", "server"} :
          Apply(c, IF o = "fail" THEN Throw(m)
                   ELSE IF env = "server" THEN Finish(m, "done")
                   ELSE Await(m, "isEnabled"))

\* toggleTree, toggleOutline, switchView and showTreeIfEnabled after
\* await isTreeViewEnabled().
ResumeIsEnabled(c) ==
  LET m == [Running(c) EXCEPT
              !.call.en = IF @ /\ calls[c].res = "ok"
                               /\ calls[c].fn \in {"toggleTree",
                                                   "toggleOutline"}
                            THEN TRUE ELSE FALSE]
      en == calls[c].en
  IN /\ calls[c].pc = "isEnabled"
     /\ \E o \in Outcomes(c) :
          Apply(c,
            IF o = "fail" THEN Throw(m)
            ELSE CASE m.call.fn \in {"toggleTree", "toggleOutline"} ->
                        IF ~en THEN EnterShow(m, m.call.view)
                        ELSE EnterHide(m, "toggle")
                   [] m.call.fn = "switchView" ->
                        IF en THEN EnterShow(m, m.call.view)
                        ELSE Finish(m, "done")
                   [] m.call.fn = "showTreeIfEnabled" ->
                        IF en THEN EnterShow(m, m.cv)
                        ELSE Finish(m, "done"))

\* getPlugConfig after await system.getSpaceConfig(PLUG_NAME, {}).
ResumeGetSpaceConfig(c) ==
  LET m == [Running(c) EXCEPT !.call.userConfig = EmptyUserConfig]
      userConfig == calls[c].userConfig
  IN /\ calls[c].pc = "getSpaceConfig"
     /\ \E o \in Outcomes(c) :
          Apply(c,
            IF o = "fail" THEN Throw(m)
            ELSE IF SchemaAccepts(userConfig)
              THEN AfterGetPlugConfig(m, SchemaParse(userConfig))
              ELSE Await(m, "flashInvalid"))

\* getPlugConfig's catch after await editor.flashNotification(...).
ResumeFlashInvalid(c) ==
  LET m == Running(c)
  IN /\ calls[c].pc = "flashInvalid"
     /\ \E o \in Outcomes(c) :
          Apply(c, IF o = "fail" THEN Throw(m)
                   ELSE AfterGetPlugConfig(m, SchemaParse(EmptyUserConfig)))

\* hideTree after await editor.hidePanel(currentPosition).
ResumeHidePanel(c) ==
  LET m == Running(c)
  IN /\ calls[c].pc = "hidePanel"
     /\ \E o \in Outcomes(c) :
          Apply(c, IF o = "fail" THEN Throw(m)
                   ELSE Await([m EXCEPT !.cp = Undefined], "setEnabledFalse"))

\* hideTree after await setTreeViewEnabled(false).
ResumeSetEnabledFalse(c) ==
  LET m == Running(c)
  IN /\ calls[c].pc = "setEnabledFalse"
     /\ \E o \in Outcomes(c) :
          Apply(c, IF o = "fail" THEN Throw(m) ELSE ReturnFromHide(m))

\* showUnifiedPanel after await Promise.all([... readAsset,
\* editor.getCurrentPage()]).
ResumeReadAssets(c) ==
  LET m == Running(c)
  IN /\ calls[c].pc = "readAssets"
     /\ \E o \in Outcomes(c) :
          Apply(c, IF o = "fail" THEN CatchShow(m) ELSE Await(m, "getTree"))

\* showUnifiedPanel after await getTagTree(config) or getOutlineTree():
\* the builder returned a forest, returned { nodes: [] } with its own error
\* notification, or, getTagTree only, threw.
ResumeGetTree(c) ==
  LET m == Running(c)
      notified == [m EXCEPT !.notes =
                     Append(@, FetchErrorNotification(m.call.view))]
  IN /\ calls[c].pc = "getTree"
     /\ \E o \in Outcomes(c) \cup {"fetchError"} :
          /\ o = "fail" => m.call.view = "tags"
          /\ Apply(c, CASE o = "fail" -> CatchShow(m)
                        [] o = "fetchError" -> Await(notified, "getCustomStyles")
                        [] o = "ok" -> Await(m, "getCustomStyles"))

\* showUnifiedPanel after await getCustomStyles().
ResumeGetCustomStyles(c) ==
  LET m == Running(c)
  IN /\ calls[c].pc = "getCustomStyles"
     /\ \E o \in Outcomes(c) :
          Apply(c, IF o = "fail" THEN CatchShow(m) ELSE Await(m, "showPanel"))

\* showUnifiedPanel after await editor.showPanel(...).
ResumeShowPanel(c) ==
  LET m == Running(c)
  IN /\ calls[c].pc = "showPanel"
     /\ \E o \in Outcomes(c) :
          Apply(c, IF o = "fail" THEN CatchShow(m)
                   ELSE Await(m, "setEnabledTrue"))

\* showUnifiedPanel after await setTreeViewEnabled(true).
ResumeSetEnabledTrue(c) ==
  LET m == Running(c)
  IN /\ calls[c].pc = "setEnabledTrue"
     /\ \E o \in Outcomes(c) :
          Apply(c, IF o = "fail" THEN CatchShow(m)
                   ELSE Finish([m EXCEPT !.cp = m.call.config.position],
                               "done"))

PanelNext ==
  \/ \E c \in Calls : \E e \in EntryPoints : Invoke(c, e)
  \/ ConfigChange
  \/ \E c \in Calls : HostCompletes(c)
  \/ \E c \in Calls : ResumeGetEnv(c)
  \/ \E c \in Calls : ResumeIsEnabled(c)
  \/ \E c \in Calls : ResumeGetSpaceConfig(c)
  \/ \E c \in Calls : ResumeFlashInvalid(c)
  \/ \E c \in Calls : ResumeHidePanel(c)
  \/ \E c \in Calls : ResumeSetEnabledFalse(c)
  \/ \E c \in Calls : ResumeReadAssets(c)
  \/ \E c \in Calls : ResumeGetTree(c)
  \/ \E c \in Calls : ResumeGetCustomStyles(c)
  \/ \E c \in Calls : ResumeShowPanel(c)
  \/ \E c \in Calls : ResumeSetEnabledTrue(c)

SpecPanel == PanelInit /\ [][PanelNext]_vars

\* No call is between its invocation and its end.
Quiescent == \A c \in Calls : calls[c].pc \in {"idle", "done", "threw"}

\* The host invokes a function when every earlier call has run to
\* completion.
InvokeAlone(c, e) ==
  /\ Quiescent
  /\ Invoke(c, e)

\* The calls of the plug's functions one after the other, each run to
\* completion, each host call free to succeed or fail.
PanelNextSeq ==
  \/ \E c \in Calls : \E e \in EntryPoints : InvokeAlone(c, e)
  \/ ConfigChange
  \/ \E c \in Calls : HostCompletes(c)
  \/ \E c \in Calls : ResumeGetEnv(c)
  \/ \E c \in Calls : ResumeIsEnabled(c)
  \/ \E c \in Calls : ResumeGetSpaceConfig(c)
  \/ \E c \in Calls : ResumeFlashInvalid(c)
  \/ \E c \in Calls : ResumeHidePanel(c)
  \/ \E c \in Calls : ResumeSetEnabledFalse(c)
  \/ \E c \in Calls : ResumeReadAssets(c)
  \/ \E c \in Calls : ResumeGetTree(c)
  \/ \E c \in Calls : ResumeGetCustomStyles(c)
  \/ \E c \in Calls : ResumeShowPanel(c)
  \/ \E c \in Calls : ResumeSetEnabledTrue(c)

SpecPanelSeq == PanelInit /\ [][PanelNextSeq]_vars

(***************************************************************************)
(* Reading a forest.                                                       *)
(***************************************************************************)
\* Every node of the forest with the path of child indices that leads to it
\* and the data of its ancestors, outermost first.
RECURSIVE Occurrences(_, _, _)
Occurrences(nodes, path, anc) ==
  UNION {{[path |-> Append(path, k), node |-> nodes[k], anc |-> anc]}
         \cup Occurrences(nodes[k].nodes, Append(path, k),
                          Append(anc, nodes[k].data)) :
         k \in 1..Len(nodes)}

Occ(forest) == Occurrences(forest, <<>>, <<>>)

\* The root list and the child list of every node.
SiblingLists(forest) == {forest} \cup {o.node.nodes : o \in Occ(forest)}

IsContainer(node) == node.data.nodeType \in {"folder", "tag"}

IsPage(node) == node.data.nodeType = "page"

\* The input of the getTagTree call, as the host gave it.
InputEntries == indexResponse.entries

ValidInput == {InputEntries[i] : i \in {j \in 1..Len(InputEntries) :
                                          ValidEntry(InputEntries[j])}}

InputTags == {e.name : e \in ValidInput}

InputPages(t) == {e.page : e \in {x \in ValidInput : x.name = t}}

TagTreeReturned == tagPc = "returned" /\ indexResponse.kind = "value"

\* parts is a proper prefix of whole, segment by segment.
ProperPrefix(parts, whole) ==
  Len(parts) < Len(whole) /\ SubSeq(whole, 1, Len(parts)) = parts

(***************************************************************************)
(* The panel's page: assets/treeview.js, fed by showUnifiedPanel, which    *)
(* reads the current page and the data of the forest with separate host    *)
(* calls and hands both to initializeTreeViewPanel.                        *)
(***************************************************************************)
UiPages == {<<"p", "1">>, <<"p", "2">>}

\* The text of each page of the space the model uses: p1 has a header with
\* a child, p2 has no header.
PageTextOf(page) ==
  IF page = <<"p", "1">>
    THEN <<"#", " ", "A", "\n", "#", "#", " ", "B">>
    ELSE <<"a">>

\* The tag index of the space the model uses: tag a/b on p1, no tag on p2.
UiIndex == << Entry(<<"a", "/", "b">>, <<"p", "1">>) >>

\* const { nodes } = viewType === "tags" ? await getTagTree(config)
\*                                       : await getOutlineTree()
TreeNodes(viewType, page) ==
  IF viewType = "tags" THEN BuildTagTree(UiIndex)
  ELSE BuildOutlineTree(PageTextOf(page))

Paths(nodes) == {o.path : o \in Occ(nodes)}

\* The nodes with children: the ones that can be open or closed.
ParentPaths(nodes) == {o.path : o \in {x \in Occ(nodes) : x.node.nodes # <<>>}}

\* A node can be clicked when all its ancestors are open.
Visible(path) ==
  \A k \in 1..(Len(path) - 1) : SubSeq(path, 1, k) \in openNodes

\* `${panelCurrentPage}@${node.data.pos}`
HeaderTarget(page, pos) == page \o <<"@">> \o NumberToString(pos)

\* The page the host navigates to for a target "page" or "page@pos".
TargetPage(target) == Split(target, "@")[1]

NavigateEvent(target) == [kind |-> "navigate", target |-> target]

OpenEvent(kind) == [kind |-> kind, target |-> <<>>]

\* onClick for a Page node: what the handler does, in order.
PageClickEvents(nodeName, currentPage) ==
  IF nodeName # currentPage THEN <<NavigateEvent(nodeName)>> ELSE <<>>

\* Mutant of HeaderClickEvents: a header with children toggles and does not
\* navigate, a leaf header navigates.
HeaderClickToggles(hasChildren, isOpen, target) ==
  IF hasChildren
    THEN <<OpenEvent(IF isOpen THEN "collapse" ELSE "expand")>>
    ELSE <<NavigateEvent(target)>>

\* Mutant of HeaderClickEvents: an open header with children is closed
\* before the navigation.
HeaderClickCollapsesOpen(hasChildren, isOpen, target) ==
  (IF hasChildren
     THEN <<OpenEvent(IF isOpen THEN "collapse" ELSE "expand")>>
     ELSE <<>>)
    \o <<NavigateEvent(target)>>

\* onClick for a Header node: what the handler does, in order.
HeaderClickEvents(hasChildren, isOpen, target) ==
  (IF hasChildren /\ ~isOpen THEN <<OpenEvent("expand")>> ELSE <<>>)
    \o <<NavigateEvent(target)>>

\* onClick for a Folder or Tag node: node.toggle().
ContainerClickEvents(isOpen) ==
  <<OpenEvent(IF isOpen THEN "collapse" ELSE "expand")>>

\* The open attribute of the clicked node after the events of its click.
OpenAfter(open, path, events) ==
  LET kinds == {events[i].kind : i \in 1..Len(events)}
  IN IF "expand" \in kinds THEN open \cup {path}
     ELSE IF "collapse" \in kinds THEN open \ {path}
     ELSE open

\* The editor.navigate syscalls among the events.
Requests(events) ==
  {events[i].target : i \in {j \in 1..Len(events) :
                               events[j].kind = "navigate"}}

\* initCollapseLevel: 1 -- the tree component starts with only root nodes
\* expanded (level 0 is root).
InitCollapseLevel == 1

\* The nodes the tree component opens when it has no persisted state.
InitialOpen(nodes) ==
  {p \in ParentPaths(nodes) : Len(p) - 1 < InitCollapseLevel}

\* The tree component given a state id: the open nodes of a fresh
\* rendering, from the state persisted under the id if there is one, else
\* from initCollapseLevel.
RestoreOpen(state, nodes) ==
  IF state = <<>> THEN InitialOpen(nodes)
  ELSE state[1] \cap ParentPaths(nodes)

\* Mutant of CreateTagTreeView: the tree is created without a state id.
CreateTreeNoStateId(state, nodes) == InitialOpen(nodes)

\* createTagTreeView(config): new SortableTree({nodes: config.nodes,
\* stateId: TREE_STATE_ID, initCollapseLevel: 1, ...}); the open nodes of
\* the tree it creates, `state` being what is persisted under the id.
CreateTagTreeView(state, nodes) == RestoreOpen(state, nodes)

\* The tree component persists the open nodes under the state id whenever a
\* node is opened or closed.
Persist(state, before, after) ==
  IF after = before THEN state ELSE <<after>>

\* collapse-all: every open node with a child is closed.
CollapseAllOpen(open, nodes) == open \ ParentPaths(nodes)

\* Mutant of ExpandAllOpen: every node is opened, with or without children.
ExpandAllEveryNode(open, nodes) == open \cup Paths(nodes)

\* expand-all: every node with a child that is not open is opened.
ExpandAllOpen(open, nodes) == open \cup ParentPaths(nodes)

\* Document order of two paths of one forest.
PathBefore(p, q) ==
  \E k \in 1..Len(p) :
    /\ k <= Len(q)
    /\ SubSeq(p, 1, k - 1) = SubSeq(q, 1, k - 1)
    /\ p[k] < q[k]

\* reveal-current-page: the first Page node, in document order, whose title
\* attribute (data.name) is the given page; <<>> when there is none, else
\* <<path>>.
FindPageNode(nodes, page) ==
  LET found == {o.path : o \in {x \in Occ(nodes) :
                    /\ x.node.data.nodeType = "page"
                    /\ x.node.data.name = page}}
  IN IF found = {} THEN <<>>
     ELSE <<CHOOSE p \in found : \A q \in found \ {p} : PathBefore(p, q)>>

\* The ancestors of the node at a path.
Ancestors(path) == {SubSeq(path, 1, k) : k \in 1..(Len(path) - 1)}

\* Mutant of RevealOpen: only the parent of the node is opened.
RevealParentOnly(open, path) ==
  open \cup {SubSeq(path, 1, Len(path) - 1)}

\* sortableNode.reveal(): expand ancestors.
RevealOpen(open, path) == open \cup Ancestors(path)

PageNotFoundNotification ==
  Notification("Current page not found in tree.", "info")

UiInit ==
  /\ activePage \in UiPages
  /\ render = NoRender
  /\ panelCurrentPage = <<>>
  /\ treeView = NoTree
  /\ openNodes = {}
  /\ pendingNav = {}
  /\ lastClick = NoClick
  /\ treeState = <<>>
  /\ lastAction = NoAction
  /\ notifications = <<>>
  /\ TagIdle
  /\ OutlineIdle
  /\ PanelIdle

\* showUnifiedPanel(viewType) starts: a toggle, a switch of view, or the
\* page-loaded and page-saved events.
RenderStart(viewType) ==
  /\ render.pc = "idle"
  /\ render' = [NoRender EXCEPT !.pc = "readPage", !.viewType = viewType]
  /\ UNCHANGED <<activePage, panelCurrentPage, treeView, openNodes,
                 pendingNav, lastClick, treeState, lastAction,
                 notifications, builderVars, panelVars>>

\* editor.getCurrentPage() of the Promise.all resolves.
RenderReadPage ==
  /\ render.pc = "readPage"
  /\ render' = [render EXCEPT !.pc = "readData", !.currentPage = activePage]
  /\ UNCHANGED <<activePage, panelCurrentPage, treeView, openNodes,
                 pendingNav, lastClick, treeState, lastAction,
                 notifications, builderVars, panelVars>>

\* getTagTree(config) or getOutlineTree() returns.
RenderReadData ==
  /\ render.pc = "readData"
  /\ render' = [render EXCEPT !.pc = "show",
                              !.nodes = TreeNodes(render.viewType, activePage)]
  /\ UNCHANGED <<activePage, panelCurrentPage, treeView, openNodes,
                 pendingNav, lastClick, treeState, lastAction,
                 notifications, builderVars, panelVars>>

\* editor.showPanel runs initializeTreeViewPanel(config) in the panel: the
\* forest is rendered, each node open or closed as the tree component
\* restores or initialises it.
RenderShow ==
  LET shown == [viewType |-> render.viewType, nodes |-> render.nodes]
  IN /\ render.pc = "show"
     /\ panelCurrentPage' = render.currentPage
     /\ treeView' = shown
     /\ openNodes' = CreateTagTreeView(treeState, render.nodes)
     /\ render' = NoRender
     /\ lastClick' = NoClick
     /\ lastAction' = [NoAction EXCEPT
                         !.action = IF treeView = shown THEN "rerender"
                                    ELSE "render",
                         !.changed = (openNodes' # openNodes)]
     /\ UNCHANGED <<activePage, pendingNav, treeState, notifications,
                    builderVars, panelVars>>

\* A host call of showUnifiedPanel fails: its catch hides the panel.
RenderFails ==
  /\ render.pc # "idle"
  /\ render' = NoRender
  /\ treeView' = NoTree
  /\ openNodes' = {}
  /\ lastClick' = NoClick
  /\ lastAction' = NoAction
  /\ UNCHANGED <<activePage, panelCurrentPage, pendingNav, treeState,
                 notifications, builderVars, panelVars>>

\* The user opens another page in the editor.
ExternalNavigate(page) ==
  /\ page # activePage
  /\ activePage' = page
  /\ lastClick' = NoClick
  /\ lastAction' = NoAction
  /\ UNCHANGED <<render, panelCurrentPage, treeView, openNodes, pendingNav,
                 treeState, notifications, builderVars, panelVars>>

Clickable(path, types) ==
  /\ Visible(path)
  /\ NodeAt(treeView.nodes, path).data.nodeType \in types

\* The handler's synchronous part, up to the syscall it awaits.
Clicked(path, events) ==
  LET node == NodeAt(treeView.nodes, path)
  IN /\ Cardinality(pendingNav \cup Requests(events)) <= MaxPendingNav
     /\ pendingNav' = pendingNav \cup Requests(events)
     /\ openNodes' = OpenAfter(openNodes, path, events)
     /\ treeState' = Persist(treeState, openNodes,
                             OpenAfter(openNodes, path, events))
     /\ lastClick' =
          [nodeType |-> node.data.nodeType, path |-> path,
           name |-> node.data.name,
           pos |-> IF node.data.nodeType = "header" THEN node.data.pos ELSE 0,
           hadChildren |-> node.nodes # <<>>,
           wasOpen |-> path \in openNodes,
           activeBefore |-> activePage,
           panelPage |-> panelCurrentPage,
           events |-> events]
     /\ lastAction' = NoAction
     /\ UNCHANGED <<activePage, render, panelCurrentPage, treeView,
                    notifications, builderVars, panelVars>>

ClickPage(path) ==
  /\ Clickable(path, {"page"})
  /\ Clicked(path, PageClickEvents(NodeAt(treeView.nodes, path).data.name,
                                   panelCurrentPage))

ClickHeader(path) ==
  /\ Clickable(path, {"header"})
  /\ LET node == NodeAt(treeView.nodes, path)
     IN Clicked(path, HeaderClickEvents(node.nodes # <<>>, path \in openNodes,
                        HeaderTarget(panelCurrentPage, node.data.pos)))

ClickContainer(path) ==
  /\ Clickable(path, {"folder", "tag"})
  /\ Clicked(path, ContainerClickEvents(path \in openNodes))

\* A button of the panel's header was pressed: what handleAction did to
\* the open nodes, to those without children among them, and how many
\* notifications it emitted.
Acted(action) ==
  LET leaves == Paths(treeView.nodes) \ ParentPaths(treeView.nodes)
  IN [action |-> action,
      changed |-> openNodes' # openNodes,
      leavesChanged |-> (openNodes' \cap leaves) # (openNodes \cap leaves),
      notified |-> Len(notifications') - Len(notifications)]

\* The open nodes become `open`: the tree component persists the change.
SetOpen(open) ==
  /\ openNodes' = open
  /\ treeState' = Persist(treeState, openNodes, open)

\* handleAction("collapse-all")
CollapseAll ==
  /\ treeView # NoTree
  /\ SetOpen(CollapseAllOpen(openNodes, treeView.nodes))
  /\ lastClick' = NoClick
  /\ UNCHANGED <<activePage, render, panelCurrentPage, treeView, pendingNav,
                 notifications, builderVars, panelVars>>
  /\ lastAction' = Acted("collapse-all")

\* handleAction("expand-all")
ExpandAll ==
  /\ treeView # NoTree
  /\ SetOpen(ExpandAllOpen(openNodes, treeView.nodes))
  /\ lastClick' = NoClick
  /\ UNCHANGED <<activePage, render, panelCurrentPage, treeView, pendingNav,
                 notifications, builderVars, panelVars>>
  /\ lastAction' = Acted("expand-all")

\* handleAction("refresh"): tree.clearState(), then treeview.switchView is
\* invoked with the view the panel shows; the call it starts takes the
\* place of a showUnifiedPanel call still under way.
Refresh ==
  /\ treeView # NoTree
  /\ treeState' = <<>>
  /\ render' = [NoRender EXCEPT !.pc = "readPage",
                                !.viewType = treeView.viewType]
  /\ lastClick' = NoClick
  /\ UNCHANGED <<activePage, panelCurrentPage, treeView, openNodes,
                 pendingNav, notifications, builderVars, panelVars>>
  /\ lastAction' = Acted("refresh")

\* handleAction("reveal-current-page")
RevealCurrentPage ==
  LET found == FindPageNode(treeView.nodes, panelCurrentPage)
  IN /\ treeView # NoTree
     /\ IF found # <<>>
          THEN /\ SetOpen(RevealOpen(openNodes, found[1]))
               /\ UNCHANGED notifications
          ELSE /\ Len(notifications) < MaxNotifications
               /\ notifications' =
                    Append(notifications, PageNotFoundNotification)
               /\ UNCHANGED <<openNodes, treeState>>
     /\ lastClick' = NoClick
     /\ UNCHANGED <<activePage, render, panelCurrentPage, treeView,
                    pendingNav, builderVars, panelVars>>
     /\ lastAction' = Acted("reveal-current-page")

\* The host completes an editor.navigate syscall: the editor shows the page.
HostNavigates(target) ==
  /\ target \in pendingNav
  /\ pendingNav' = pendingNav \ {target}
  /\ activePage' = TargetPage(target)
  /\ lastClick' = NoClick
  /\ lastAction' = NoAction
  /\ UNCHANGED <<render, panelCurrentPage, treeView, openNodes, treeState,
                 notifications, builderVars, panelVars>>

\* The editor.navigate syscall rejects: the handler's catch notifies.
HostNavigateFails(target) ==
  /\ target \in pendingNav
  /\ Len(notifications) < MaxNotifications
  /\ pendingNav' = pendingNav \ {target}
  /\ notifications' =
       Append(notifications,
              Notification(IF Len(Split(target, "@")) > 1
                             THEN "Error navigating to header"
                             ELSE "Error navigating", "error"))
  /\ lastClick' = NoClick
  /\ lastAction' = NoAction
  /\ UNCHANGED <<activePage, render, panelCurrentPage, treeView, openNodes,
                 treeState, builderVars, panelVars>>

UiNext ==
  \/ \E v \in {"tags", "outline"} : RenderStart(v)
  \/ RenderReadPage
  \/ RenderReadData
  \/ RenderShow
  \/ RenderFails
  \/ \E page \in UiPages : ExternalNavigate(page)
  \/ \E path \in Paths(treeView.nodes) : ClickPage(path)
  \/ \E path \in Paths(treeView.nodes) : ClickHeader(path)
  \/ \E path \in Paths(treeView.nodes) : ClickContainer(path)
  \/ CollapseAll
  \/ ExpandAll
  \/ Refresh
  \/ RevealCurrentPage
  \/ \E target \in pendingNav : HostNavigates(target)
  \/ \E target \in pendingNav : HostNavigateFails(target)

SpecUi == UiInit /\ [][UiNext]_vars

(***************************************************************************)
(* Claims on getTagTree.                                                   *)
(***************************************************************************)
\* C1: every valid tag name s1/.../sN of the input has exactly one Tag node
\* of that name in the returned forest; its title is sN, it sits at depth N,
\* and its ancestor at each depth k < N is a Folder or Tag named s1/.../sk.
C1_EveryTagOneNode ==
  TagTreeReturned =>
    \A t \in InputTags :
      LET parts == Split(t, "/")
          M == {o \in Occ(tagResult) :
                  o.node.data.nodeType = "tag" /\ o.node.data.name = t}
      IN /\ Cardinality(M) = 1
         /\ \A o \in M :
              /\ o.node.data.title = parts[Len(parts)]
              /\ Len(o.path) = Len(parts)
              /\ \A k \in 1..(Len(parts) - 1) :
                   /\ o.anc[k].nodeType \in {"folder", "tag"}
                   /\ o.anc[k].name = Join(SubSeq(parts, 1, k), "/")

C3_SiblingsOrdered ==
  TagTreeReturned =>
    \A L \in SiblingLists(tagResult) :
      \A i, j \in 1..Len(L) :
        i < j =>
          /\ ~(IsPage(L[i]) /\ IsContainer(L[j]))
          /\ (IsPage(L[i]) <=> IsPage(L[j])) =>
               LocaleCompare(L[i].data.title, L[j].data.title) <= 0

\* C4: Folder and Tag siblings have the same rank: among the Folder and Tag
\* nodes of every sibling list the order is alphabetical by title alone.
C4_FolderTagSameRank ==
  TagTreeReturned =>
    \A L \in SiblingLists(tagResult) :
      \A i, j \in 1..Len(L) :
        (i < j /\ IsContainer(L[i]) /\ IsContainer(L[j])) =>
          LocaleCompare(L[i].data.title, L[j].data.title) <= 0

\* A returned forest in which a Tag stands right before a Folder whose title
\* sorts after it.
C4_Witness ==
  /\ TagTreeReturned
  /\ \E L \in SiblingLists(tagResult) :
       \E i \in 1..(Len(L) - 1) :
         /\ L[i].data.nodeType = "tag"
         /\ L[i + 1].data.nodeType = "folder"
         /\ LocaleCompare(L[i].data.title, L[i + 1].data.title) < 0

\* C5: every Page node of the returned forest has an empty child list.
C5_PagesAreLeaves ==
  TagTreeReturned =>
    \A o \in Occ(tagResult) : IsPage(o.node) => o.node.nodes = <<>>

\* The nodes that stand for the path of tag t: at the depth of t, named t,
\* under ancestors named by the prefixes of t.
NodesAtPath(forest, t) ==
  LET parts == Split(t, "/")
  IN {o \in Occ(forest) :
        /\ o.node.data.name = t
        /\ Len(o.path) = Len(parts)
        /\ \A k \in 1..(Len(parts) - 1) :
             o.anc[k].name = Join(SubSeq(parts, 1, k), "/")}

\* C6: no two siblings share (title, name); a path that is a complete tag and
\* a proper prefix of another tag is one node, of type Tag, that carries the
\* tag's Page children and the next node on the way to the longer tag.
C6_MergedSingleTagNode ==
  TagTreeReturned =>
    /\ \A L \in SiblingLists(tagResult) :
         \A i, j \in 1..Len(L) :
           i # j => ~(/\ L[i].data.title = L[j].data.title
                      /\ L[i].data.name = L[j].data.name)
    /\ \A t, u \in InputTags :
         ProperPrefix(Split(t, "/"), Split(u, "/")) =>
           LET M == NodesAtPath(tagResult, t)
               next == Join(SubSeq(Split(u, "/"), 1, Len(Split(t, "/")) + 1),
                            "/")
           IN /\ Cardinality(M) = 1
              /\ \A o \in M :
                   LET kids == Range(o.node.nodes)
                   IN /\ o.node.data.nodeType = "tag"
                      /\ {n.data.name : n \in {x \in kids : IsPage(x)}}
                           = InputPages(t)
                      /\ \E n \in kids :
                           IsContainer(n) /\ n.data.name = next

\* The forest of the scenario.
ScenarioForest ==
  LET Page(n) == [data |-> [name |-> n, title |-> n, nodeType |-> "page"],
                  nodes |-> <<>>]
      Tag(n, t, c, kids) ==
        [data |-> [name |-> n, title |-> t, nodeType |-> "tag",
                   pageCount |-> c],
         nodes |-> kids]
  IN << [data |-> [name |-> <<"a">>, title |-> <<"a">>,
                   nodeType |-> "folder"],
         nodes |-> << Tag(<<"a", "/", "b">>, <<"b">>, 1, <<Page(<<"p", "1">>)>>),
                      Tag(<<"a", "/", "c">>, <<"c">>, 2,
                          <<Page(<<"p", "2">>), Page(<<"p", "3">>)>>) >>],
        Tag(<<"x">>, <<"x">>, 1, <<Page(<<"p", "1">>)>>) >>

\* C7: for tag a/b on p1, a/c on p2 and p3, x on p1 the returned root list is
\* Folder a [Tag b (1) [p1], Tag c (2) [p2, p3]], Tag x (1) [p1]; and for every
\* input, the tags that share a first segment which is not itself a tag are
\* under one Folder node of the root list.
C7_ScenarioAndGrouping ==
  TagTreeReturned =>
    /\ ValidInput = ScenarioEntries => tagResult = ScenarioForest
    /\ LET tags == InputTags
           tagNodes == {o \in Occ(tagResult) : o.node.data.nodeType = "tag"}
       IN \A u \in tags :
            LET s == Split(u, "/")[1]
                R == {k \in 1..Len(tagResult) : tagResult[k].data.title = s}
            IN (Len(Split(u, "/")) > 1 /\ s \notin tags) =>
                 /\ Cardinality(R) = 1
                 /\ \A k \in R :
                      /\ tagResult[k].data.nodeType = "folder"
                      /\ tagResult[k].data.name = s
                 /\ \A o \in tagNodes :
                      (/\ Len(Split(o.node.data.name, "/")) > 1
                       /\ Split(o.node.data.name, "/")[1] = s)
                        => o.path[1] \in R

\* The scenario's records, out of order and with a repeat, built and
\* returned.
C7_Witness ==
  /\ TagTreeReturned
  /\ ValidInput = ScenarioEntries
  /\ Len(InputEntries) > Cardinality(ScenarioEntries)
  /\ InputEntries[1] = Entry(<<"x">>, <<"p", "1">>)
  /\ tagResult = ScenarioForest

\* The index query gave no list of records: it rejected, or resolved to a
\* value that is no array.
IndexQueryFailed ==
  indexResponse.kind = "throws"
  \/ (indexResponse.kind = "value" /\ ~indexResponse.iterable)

\* C9: when the index query is unreachable or yields a malformed result,
\* getTagTree returns { nodes: [] } and throws nothing to its caller; a
\* failed fetch gives exactly one error notification.
C9_FetchFailureEmptyForest ==
  IndexQueryFailed =>
    /\ tagPc # "threw"
    /\ tagPc = "returned" => tagResult = <<>>
    /\ (tagPc = "returned" /\ indexResponse.kind = "throws") =>
         notifications = <<Notification("Error fetching tags", "error")>>

(***************************************************************************)
(* Claims on getOutlineTree.                                               *)
(***************************************************************************)
OutlineReturned == outlinePc = "returned" /\ textResponse.kind = "value"

\* The headers of the document read, in document order.
DocHeaders == ScanHeaders(textResponse.text)

\* The headers before header k whose level is below its level.
LowerBefore(headers, k) ==
  {j \in 1..(k - 1) : headers[j].level < headers[k].level}

\* C10: in the returned forest the parent of each header of level L is the
\* nearest header before it in the document whose level is below L, and the
\* header is a root exactly when no header before it has a level below L.
C10_ParentIsNearestLower ==
  OutlineReturned =>
    LET headers == DocHeaders
        occ == Occ(outlineResult)
    IN \A k \in 1..Len(headers) :
         LET M == {o \in occ : o.node.data = headers[k]}
             B == LowerBefore(headers, k)
         IN /\ M # {}
            /\ \A o \in M :
                 IF B = {} THEN o.anc = <<>>
                 ELSE /\ o.anc # <<>>
                      /\ o.anc[Len(o.anc)] =
                           headers[CHOOSE j \in B : \A i \in B : i <= j]

\* A returned forest in which a header's parent is not the header right
\* before it: the stack was popped to find it.
C10_Witness ==
  /\ OutlineReturned
  /\ \E k \in 3..Len(DocHeaders) :
       \E o \in Occ(outlineResult) :
         /\ o.node.data = DocHeaders[k]
         /\ o.anc # <<>>
         /\ o.anc[Len(o.anc)] = DocHeaders[k - 2]
         /\ DocHeaders[k - 1].level > DocHeaders[k].level

\* The levels of a list of headers.
Levels(headers) == [k \in 1..Len(headers) |-> headers[k].level]

LevelsCase == OutlineReturned /\ Levels(DocHeaders) = <<1, 2, 3, 2, 1>>

\* C11 as the specification states it: for headers of the levels 1, 2, 3, 2,
\* 1 the forest has two roots, the second root has one child, of level 2, and
\* the first root has two children.
C11_LevelsAsStated ==
  LevelsCase =>
    /\ Len(outlineResult) = 2
    /\ Len(outlineResult[2].nodes) = 1
    /\ outlineResult[2].nodes[1].data.level = 2
    /\ Len(outlineResult[1].nodes) = 2

\* C11, amended: for headers of the levels 1, 2, 3, 2, 1 the forest has two
\* roots, the two headers of level 1; the children of the first root are the
\* two headers of level 2, in document order; the header of level 3 is the
\* only child of the first of them; the second root has no child.
C11_LevelsForest ==
  LevelsCase =>
    LET h == DocHeaders
        Leaf(d) == [data |-> d, nodes |-> <<>>]
    IN outlineResult =
         << [data |-> h[1],
             nodes |-> << [data |-> h[2], nodes |-> <<Leaf(h[3])>>],
                          Leaf(h[4]) >>],
            Leaf(h[5]) >>

\* The document of the five levels was read and its forest returned.
C11_Witness == LevelsCase /\ Len(outlineResult) = 2

\* The data of the nodes of a forest, each node before its children.
RECURSIVE Preorder(_)
Preorder(nodes) ==
  IF nodes = <<>> THEN <<>>
  ELSE <<nodes[1].data>> \o Preorder(nodes[1].nodes) \o Preorder(Tail(nodes))

\* C12: every header line of the document is exactly one node of the
\* returned forest, every sibling list is in document order, and the
\* pre-order traversal of the forest is the headers in document order.
C12_PreorderIsDocumentOrder ==
  OutlineReturned =>
    LET headers == DocHeaders
        occ == Occ(outlineResult)
    IN /\ Preorder(outlineResult) = headers
       /\ \A k \in 1..Len(headers) :
            Cardinality({o \in occ : o.node.data = headers[k]}) = 1
       /\ \A L \in SiblingLists(outlineResult) :
            \A i, j \in 1..Len(L) : i < j => L[i].data.pos < L[j].data.pos

\* A returned forest with a sibling list of two headers and a header below
\* the first of them.
C12_Witness ==
  /\ OutlineReturned
  /\ \E L \in SiblingLists(outlineResult) :
       Len(L) >= 2 /\ L[1].nodes # <<>>

\* The forest of the scenario text.
ScenarioOutline ==
  LET Header(n, t, l, p, kids) ==
        [data |-> [name |-> n, title |-> t, nodeType |-> "header",
                   level |-> l, pos |-> p],
         nodes |-> kids]
  IN << Header(HeaderName(0), <<"A">>, 1, 0,
               <<Header(HeaderName(1), <<"B">>, 2, 4, <<>>)>>),
        Header(HeaderName(3), <<"C">>, 1, 14, <<>>) >>

\* C13: the pos of every Header node is the offset in the text of the first
\* character of its line, its level is the number of '#' that line starts
\* with, between 1 and 6; and the forest of "# A\n## B\ntext\n# C" is
\* Header A (pos 0) with the child Header B, then Header C (pos 14).
C13_PosAndLevel ==
  OutlineReturned =>
    LET text == textResponse.text
    IN /\ \A o \in Occ(outlineResult) :
            LET d == o.node.data
            IN /\ d.pos \in 0..(Len(text) - 1)
               /\ d.pos = 0 \/ text[d.pos] = "\n"
               /\ d.name =
                    HeaderName(Cardinality({i \in 1..d.pos : text[i] = "\n"}))
               /\ d.level \in 1..6
               /\ \A i \in 1..d.level : text[d.pos + i] = "#"
               /\ text[d.pos + d.level + 1] # "#"
       /\ text = ScenarioText => outlineResult = ScenarioOutline

\* The scenario text was read and Header C returned at offset 14.
C13_Witness ==
  /\ OutlineReturned
  /\ textResponse.text = ScenarioText
  /\ Len(outlineResult) = 2
  /\ outlineResult[2].data.pos = 14

\* The text could not be read or could not be split.
OutlineReadFailed == textResponse.kind \in {"throws", "malformed"}

\* C14: a failure while getOutlineTree reads or processes the text never
\* reaches the caller: the call returns { nodes: [] } with exactly one error
\* notification.
C14_FailureCaught ==
  /\ outlinePc # "threw"
  /\ (OutlineReadFailed /\ outlinePc = "returned") =>
       /\ outlineResult = <<>>
       /\ notifications = <<Notification("Error getting outline", "error")>>

\* The text read was no string and the call has returned.
C14_Witness ==
  /\ textResponse.kind = "malformed"
  /\ outlinePc = "returned"
  /\ Len(notifications) = 1

(***************************************************************************)
(* Claims on the panel controller.                                         *)
(***************************************************************************)
\* How often the invalid-configuration notification was shown.
InvalidConfigNotified ==
  Cardinality({i \in 1..Len(notifications) :
                 notifications[i] = InvalidConfigNotification})

\* C15: when the stored settings fail validation getPlugConfig returns the
\* configuration of position 'lhs' and size 320, and over all the
\* getPlugConfig calls of a session the invalid-configuration notification
\* is shown at most once.
C15_InvalidConfigNotifiedOnce ==
  [][/\ \A c \in Calls :
          (/\ calls[c].pc = "flashInvalid"
           /\ calls'[c].pc \in {"readAssets", "hidePanel"})
            => calls'[c].config = [position |-> "lhs", size |-> 320]
     /\ InvalidConfigNotified' <= 1]_vars

\* C16: no call of the plug's functions ends with an exception, and one in
\* which a host call failed ends with no panel shown or with an error
\* notification.
C16_NoFailureIsFatal ==
  \A c \in Calls :
    /\ calls[c].pc # "threw"
    /\ (calls[c].pc = "done" /\ calls[c].failed) =>
         \/ \A p \in PositionEnum : panels[p] = NoPanel
         \/ \E i \in 1..Len(notifications) : notifications[i].type = "error"

\* Every call is a showUnifiedPanel or switchView call that has completed,
\* and no host call failed.
ShowsCompleted ==
  \A c \in Calls :
    /\ calls[c].fn \in {"showUnifiedPanel", "switchView"}
    /\ calls[c].pc = "done"
    /\ ~calls[c].failed

\* C17: once overlapping showUnifiedPanel/switchView calls have completed,
\* the panel shown displays the view type of the call invoked last, which is
\* currentViewType.
C17_LaterShowSupersedes ==
  ShowsCompleted =>
    \A p \in PositionEnum :
      panels[p] # NoPanel =>
        /\ panels[p].viewType = calls[MaxCalls].view
        /\ panels[p].viewType = currentViewType

TagsShown == \E p \in PositionEnum : panels[p].viewType = "tags"

OutlineShown == \E p \in PositionEnum : panels[p].viewType = "outline"

\* A step of call c, its own or the host's on its behalf.
StepOf(c, fn) == calls'[c] # calls[c] /\ calls'[c].fn = fn

\* C18: a step of a toggleOutline call changes neither whether the tag view
\* is shown nor whether it is enabled, and a step of a toggleTree call
\* changes neither for the outline view.
C18_TogglePerViewMode ==
  [][\A c \in Calls :
       /\ StepOf(c, "toggleOutline") =>
            /\ TagsShown' = TagsShown
            /\ TagsShown => enabled' = enabled
       /\ StepOf(c, "toggleTree") =>
            /\ OutlineShown' = OutlineShown
            /\ OutlineShown => enabled' = enabled]_vars

(***************************************************************************)
(* Claims on the panel's click handlers.                                   *)
(***************************************************************************)
\* C19: a click on a Page node requests navigation to the node's page
\* exactly when that page is not the page the editor shows at the time of
\* the click.
C19_PageClickNavigatesIffNotActive ==
  lastClick.nodeType = "page" =>
    /\ Requests(lastClick.events) # {} <=>
         lastClick.name # lastClick.activeBefore
    /\ Requests(lastClick.events) \subseteq {lastClick.name}

C22_StateSurvivesRefresh ==
  lastAction.action = "rerender" => ~lastAction.changed

\* C22 amended: when the panel is rendered again with the forest and view
\* it already shows, every node is open or closed as it was before if a
\* state is persisted under the state id; if none is, which for a tree the
\* user changed is the case only after the refresh button cleared it, the
\* nodes are shown in their initial state.
C22_StateSurvivesUnlessCleared ==
  lastAction.action = "rerender" =>
    IF treeState = <<>>
      THEN openNodes = InitialOpen(treeView.nodes)
      ELSE ~lastAction.changed

\* A forest was rendered again and shows the state the user gave it, which
\* is not the initial one.
C22_Witness ==
  /\ lastAction.action = "rerender"
  /\ treeState # <<>>
  /\ openNodes # InitialOpen(treeView.nodes)
  /\ ParentPaths(treeView.nodes) # {}

\* C23: after expand-all every node with a child is open, after
\* collapse-all every node with a child is closed; neither changes a node
\* without children, and pressing the same button again changes nothing.
C23_BulkActionsForceParents ==
  LET parents == ParentPaths(treeView.nodes)
  IN /\ lastAction.action = "expand-all" =>
          /\ parents \subseteq openNodes
          /\ ~lastAction.leavesChanged
          /\ ExpandAllOpen(openNodes, treeView.nodes) = openNodes
     /\ lastAction.action = "collapse-all" =>
          /\ parents \cap openNodes = {}
          /\ ~lastAction.leavesChanged
          /\ CollapseAllOpen(openNodes, treeView.nodes) = openNodes

\* expand-all opened a tree of at least two nodes with children, some of
\* them closed before.
C23_Witness ==
  /\ lastAction.action = "expand-all"
  /\ lastAction.changed
  /\ Cardinality(ParentPaths(treeView.nodes)) >= 2
  /\ ParentPaths(treeView.nodes) \subseteq openNodes

\* C24: after reveal-current-page, if the forest has a Page node named as
\* the page the editor shows, the ancestors of that node are open and no
\* notification was emitted; otherwise exactly one notification, the
\* informational 'not found', was emitted and no node changed.
C24_RevealActivePage ==
  lastAction.action = "reveal-current-page" =>
    LET found == FindPageNode(treeView.nodes, activePage)
    IN IF found # <<>>
         THEN /\ Ancestors(found[1]) \subseteq openNodes
              /\ lastAction.notified = 0
         ELSE /\ lastAction.notified = 1
              /\ notifications[Len(notifications)] = PageNotFoundNotification
              /\ ~lastAction.changed


(***************************************************************************)
(* Claims on the panel controller's flag, position and panels.             *)
(***************************************************************************)
Toggles == {"toggleTree", "toggleOutline"}

\* The positions at which the host shows a panel.
VisiblePanels == {p \in PositionEnum : panels[p] # NoPanel}

\* No call was invoked after call c.
LatestCall(c) == IF c = MaxCalls THEN TRUE ELSE calls[c + 1].pc = "idle"

\* C25: when calls run one after the other, each to completion, then after
\* every call the persisted flag is true exactly when currentPosition is
\* defined.
C25_EnabledIffPositionTracked ==
  (Quiescent /\ calls[1].pc # "idle") =>
    (enabled <=> currentPosition # Undefined)

\* C26: when calls run one after the other, a toggle that read the flag as
\* true ends with no panel visible and the flag false, and a toggle that
\* read it as false and whose show succeeded ends with the panel of its
\* view visible and the flag true.
C26_ToggleFlipsVisibility ==
  \A c \in Calls :
    (/\ calls[c].fn \in Toggles
     /\ calls[c].pc \in {"done", "threw"}
     /\ LatestCall(c)) =>
       /\ calls[c].en => (~enabled /\ VisiblePanels = {})
       /\ (~calls[c].en /\ calls[c].pc = "done" /\ ~calls[c].failed) =>
            /\ enabled
            /\ \E p \in VisiblePanels : panels[p].viewType = calls[c].view

\* Call c is a hideTree call, or a toggle that took its hideTree branch,
\* it has returned, and no call was invoked after it.
HideCompleted(c) ==
  /\ \/ calls[c].fn = "hideTree"
     \/ calls[c].fn \in Toggles /\ calls[c].en
  /\ calls[c].pc = "done"
  /\ LatestCall(c)

\* C27: from the return of a hideTree call until a later call is invoked,
\* no step makes a panel visible, defines currentPosition or sets the flag,
\* whatever calls invoked before the hide are still under way.
C27_HideNotUndone ==
  [][\A c \in Calls :
       (HideCompleted(c) /\ HideCompleted(c)') =>
         /\ VisiblePanels = {} => VisiblePanels' = {}
         /\ currentPosition = Undefined => currentPosition' = Undefined
         /\ ~enabled => ~enabled']_vars

\* C28: at no time is more than one panel visible, and once every call has
\* ended a visible panel is at currentPosition.
C28_OnePanelAtCurrentPosition ==
  /\ Cardinality(VisiblePanels) <= 1
  /\ Quiescent => \A p \in VisiblePanels : currentPosition = p


(***************************************************************************)
(* Claims on the shape of the forests the builders return.                 *)
(***************************************************************************)
\* The children of a node that are Page nodes.
PageChildren(node) == SelectSeq(node.nodes, IsPage)

C30_OutlineLevels ==
  OutlineReturned =>
    /\ \A o \in Occ(outlineResult) :
         /\ o.node.data.level \in 1..6
         /\ o.anc # <<>> => o.anc[Len(o.anc)].level < o.node.data.level
    /\ \A list \in SiblingLists(outlineResult) :
         \A i, j \in 1..Len(list) :
           i < j => list[i].data.level >= list[j].data.level

\* A returned forest with a header of level 6 under a parent, and a sibling
\* list of children in which the level goes down.
C30_Witness ==
  /\ OutlineReturned
  /\ \E o \in Occ(outlineResult) :
       o.node.data.level = 6 /\ o.anc # <<>>
  /\ \E o \in Occ(outlineResult) :
       /\ Len(o.node.nodes) >= 2
       /\ o.node.nodes[1].data.level > o.node.nodes[2].data.level

====
